---- MODULE Spec2Model ----
(***************************************************************************)
(* A model of stock.py: the beta -> discount-rate policy                   *)
(* (get_discount_rate_from_beta) and the discounted-cash-flow valuation    *)
(* of class Stock.                                                         *)
(*                                                                         *)
(* Python floats are modelled as exact rationals <<n, d>> in lowest terms  *)
(* with d > 0: the operators below compute the real-number value of each   *)
(* arithmetic expression of the source.  Binary rounding error is outside  *)
(* the model.                                                              *)
(***************************************************************************)
EXTENDS Integers, Sequences, FiniteSets, TLC

VARIABLES
    stock,      \* the fields of the Stock instance (self.__dict__)
    op,         \* the operation that returned last ("__init__" after construction)
    arg,        \* the argument of that operation (NoArg when it takes none)
    result,     \* what that operation returned or raised
    pc,         \* position of the running call in the stepwise execution
    top,        \* the method the caller invoked in the stepwise execution
    stack,      \* the year argument of each active get_projected_cash_flow frame, innermost first
    ret,        \* the value the innermost completed get_projected_cash_flow frame returned
    i,          \* the loop variable of sum_present_value
    sum         \* the accumulator of sum_present_value

vars == <<stock, op, arg, result, pc, top, stack, ret, i, sum>>

-----------------------------------------------------------------------------
(* Bounds of the model.                                                    *)

\* forecast horizons (Stock.year) run over 0..MaxForecastYears
MaxForecastYears == 3
\* year arguments of the per-year operations run over 1..MaxYear
MaxYear == 7
\* the beta grid of the policy runs up to MaxBetaMilli thousandths
MaxBetaMilli == 2000
\* the growth grid of construction runs over -MaxGrowthPercent..MaxGrowthPercent, in 1/100
MaxGrowthPercent == 30

-----------------------------------------------------------------------------
(* Exact rational arithmetic standing for Python's float arithmetic.       *)

Abs(n) == IF n < 0 THEN -n ELSE n

\* Euclid's algorithm on naturals
RECURSIVE GCD(_, _)
GCD(a, b) == IF b = 0 THEN a ELSE CHOOSE g \in { GCD(b, r) : r \in {a % b} } : TRUE

\* the rational n/d (d # 0) in lowest terms with a positive denominator
Norm(n, d) ==
    CHOOSE q \in { <<(IF d < 0 THEN -1 ELSE 1) * (n \div g), Abs(d) \div g>> :
                   g \in {GCD(Abs(n), Abs(d))} } : TRUE

RInt(n) == <<n, 1>>

Zero == RInt(0)

IsZero(a) == a[1] = 0

\* a * b on operands in lowest terms, cross-reduced first so that the products stay small
MulReduced(a, b) ==
    CHOOSE q \in { Norm((a[1] \div g1) * (b[1] \div g2), (a[2] \div g2) * (b[2] \div g1)) :
                   g1 \in {GCD(Abs(a[1]), b[2])}, g2 \in {GCD(Abs(b[1]), a[2])} } : TRUE

\* a * b; the operands are evaluated once
RMul(x, y) == CHOOSE q \in { MulReduced(a, b) : a \in {x}, b \in {y} } : TRUE

\* a / b for b # 0
RDiv(x, y) == CHOOSE q \in { RMul(x, Norm(b[2], b[1])) : b \in {y} } : TRUE

\* a + b over the least common denominator l
AddOver(a, b, l) == Norm(a[1] * (l \div a[2]) + b[1] * (l \div b[2]), l)

\* a + b; the operands are evaluated once
RAdd(x, y) ==
    CHOOSE q \in { AddOver(a, b, (a[2] \div GCD(a[2], b[2])) * b[2]) :
                   a \in {x}, b \in {y} } : TRUE

RSub(x, y) == CHOOSE q \in { RAdd(x, <<-b[1], b[2]>>) : b \in {y} } : TRUE

RLess(a, b) == a[1] * b[2] < b[1] * a[2]

RLeq(a, b) == a[1] * b[2] <= b[1] * a[2]

\* min(a, b) of Python: the first argument unless the second is strictly smaller
RMin(a, b) == IF RLess(b, a) THEN b ELSE a

\* a ** k for an integer k >= 0
RECURSIVE RPow(_, _)
RPow(a, k) == IF k = 0 THEN RInt(1) ELSE RMul(a, RPow(a, k - 1))

\* math.ceil: the least integer >= a  (\div rounds towards minus infinity)
Ceil(a) == -((-a[1]) \div a[2])

\* round(a) of Python 3 with one argument: nearest integer, ties to even
Round(a) ==
    LET fl == a[1] \div a[2]
        twice == 2 * (a[1] - fl * a[2])
    IN  IF twice < a[2] THEN fl
        ELSE IF twice > a[2] THEN fl + 1
        ELSE IF fl % 2 = 0 THEN fl ELSE fl + 1

\* the decimal literal with the given number of thousandths (1.05 is Milli(1050))
Milli(n) == Norm(n, 1000)

-----------------------------------------------------------------------------
(* get_discount_rate_from_beta                                             *)

\* the policy with the upper flat branch taken from 1.5 on, not above it
get_discount_rate_from_beta_from15(beta) ==
    IF RLess(beta, Milli(800)) THEN Milli(1050)
    ELSE IF RLeq(beta, RInt(1)) THEN Milli(1060)
    ELSE IF RLeq(Milli(1500), beta) THEN Milli(1090)
    ELSE LET tier == Ceil(RMul(RSub(beta, RInt(1)), RInt(10)))
             dr == RAdd(Milli(1060), RMul(RInt(tier), Milli(5)))
         IN  RDiv(RInt(Round(RMul(dr, RInt(1000)))), RInt(1000))

get_discount_rate_from_beta(beta) ==
    IF RLess(beta, Milli(800)) THEN Milli(1050)
    ELSE IF RLeq(beta, RInt(1)) THEN Milli(1060)
    ELSE IF RLess(Milli(1500), beta) THEN Milli(1090)
    ELSE LET tier == Ceil(RMul(RSub(beta, RInt(1)), RInt(10)))
             dr == RAdd(Milli(1060), RMul(RInt(tier), Milli(5)))
         IN  RDiv(RInt(Round(RMul(dr, RInt(1000)))), RInt(1000))

-----------------------------------------------------------------------------
(* Stock.__init__                                                          *)

\* a key the market-data provider does not report (the lookup raises KeyError)
Missing == <<>>

\* the runtime type of the numeric fields: it decides what x / 0 does
\* (float raises ZeroDivisionError, numpy.float64 returns inf or nan)
NumberTypes == {"float", "numpy.float64"}

Currencies == {"USD", "EUR"}

\* the 'ask' of the currency quote <currency>USD=X
AskRatios == {Norm(1, 2)}

\* the same partition of the beta axis, a few points of it
StockBetas == {Missing, Norm(1, 2), RInt(1), Norm(7, 5)}

\* earnings_trend growth estimates: one below and one above the 15% cap
Growths == {Norm(1, 10), Norm(1, 5)}

\* what Ticker(ticker) reports; the company reports in the currency it trades in
TickerData ==
  { d \in
    [ currentPrice      : {RInt(1)},
      sharesOutstanding : {0, 2},
      currency          : Currencies,
      ask               : AskRatios,
      beta              : StockBetas,
      CashSTI           : {Missing, RInt(1)},
      CashEq            : {RInt(1)},
      TotalDebt         : {Missing, RInt(1)},
      currencyCode      : Currencies,
      OperatingCashFlow : {RInt(0), RInt(2)},
      growth            : Growths,
      number_type       : NumberTypes ] : d.currencyCode = d.currency }

\* the reports of a US company with all figures present
PlainTickerData ==
    [ currentPrice      : {RInt(1)},
      sharesOutstanding : {2},
      currency          : {"USD"},
      ask               : AskRatios,
      beta              : StockBetas,
      CashSTI           : {RInt(1)},
      CashEq            : {RInt(1)},
      TotalDebt         : {RInt(1)},
      currencyCode      : {"USD"},
      OperatingCashFlow : {RInt(1), RInt(2)},
      growth            : Growths,
      number_type       : {"float"} ]

\* lines 88-94: the discount rate, with the fallback when beta is absent
InitDiscountRate(d) ==
    IF d.beta = Missing THEN Milli(1090) ELSE get_discount_rate_from_beta(d.beta)

\* the ten-year growth without the cap
InitTenYearGrowth_uncapped(five_year_growth) == five_year_growth

\* line 137
InitTenYearGrowth(five_year_growth) == RMin(Milli(1150), five_year_growth)

\* the fields of the Stock that Stock(ticker, year) builds from the reports d
Construct(year, d) ==
    LET price0 == d.currentPrice
        price  == IF d.currency # "USD" THEN RMul(price0, d.ask) ELSE price0
        cash0  == IF d.CashSTI = Missing THEN d.CashEq ELSE d.CashSTI
        debt0  == IF d.TotalDebt = Missing THEN RInt(0) ELSE d.TotalDebt
        ocf0   == d.OperatingCashFlow
        conv   == d.currencyCode # "USD"
        five   == RAdd(d.growth, RInt(1))
    IN  [ year                |-> year,
          current_price_USD   |-> price,
          shares_outstanding  |-> d.sharesOutstanding,
          beta                |-> IF d.beta = Missing THEN <<"NaN">> ELSE d.beta,
          discount_rate       |-> InitDiscountRate(d),
          forex               |-> d.currencyCode,
          cash_and_STI        |-> IF conv THEN RMul(cash0, d.ask) ELSE cash0,
          total_debt          |-> IF conv THEN RMul(debt0, d.ask) ELSE debt0,
          operating_cash_flow |-> IF conv THEN RMul(ocf0, d.ask) ELSE ocf0,
          five_year_growth    |-> five,
          ten_year_growth     |-> InitTenYearGrowth(five),
          number_type         |-> d.number_type ]

-----------------------------------------------------------------------------
(* Outcomes of an operation: a value, or a division by zero.               *)

Val(r) == [kind |-> "value", val |-> r]

Fault(k) == [kind |-> k, val |-> Zero]

NoArg == 0

\* x / 0: ZeroDivisionError on Python floats, inf or nan on numpy.float64
DivisionByZero(s) ==
    IF s.number_type = "float" THEN Fault("ZeroDivisionError") ELSE Fault("nonfinite")

\* x / y, x + y, x - y on outcomes: an exception or a non-finite operand carries over
ODiv(s, x, y) ==
    IF x.kind # "value" THEN x
    ELSE IF y.kind # "value" THEN y
    ELSE IF IsZero(y.val) THEN DivisionByZero(s)
    ELSE Val(RDiv(x.val, y.val))

OAdd(x, y) ==
    IF x.kind # "value" THEN x
    ELSE IF y.kind # "value" THEN y
    ELSE Val(RAdd(x.val, y.val))

OSub(x, y) ==
    IF x.kind # "value" THEN x
    ELSE IF y.kind # "value" THEN y
    ELSE Val(RSub(x.val, y.val))

-----------------------------------------------------------------------------
(* The methods of Stock, as functions of the fields s.                     *)

attributes(s) == s

get_discount_rate(s, year) == RPow(s.discount_rate, year)

\* the recursion with its base case at year 0
IsBaseYear_zero(year) == year = 0

\* line 147: the base case of the recursion
IsBaseYear(year) == year = 1

\* the multiplier with the switch one year late
GrowthOfYear_through6(s, year) ==
    IF year < 7 THEN s.five_year_growth ELSE s.ten_year_growth

\* the multiplier with the switch one year early
GrowthOfYear_through4(s, year) ==
    IF year < 5 THEN s.five_year_growth ELSE s.ten_year_growth

\* lines 149-152: the multiplier of a recursive case
GrowthOfYear(s, year) ==
    IF year < 6 THEN s.five_year_growth ELSE s.ten_year_growth

RECURSIVE get_projected_cash_flow(_, _)
get_projected_cash_flow(s, year) ==
    IF IsBaseYear(year) THEN RMul(s.operating_cash_flow, s.five_year_growth)
    ELSE RMul(GrowthOfYear(s, year), get_projected_cash_flow(s, year - 1))

get_present_value(s, year) ==
    RDiv(get_projected_cash_flow(s, year), get_discount_rate(s, year))

\* the for loop of sum_present_value from i on, with the accumulator acc
\* range(1, self.year): the last year left out
InRange_exclusive(s, k) == 1 <= k /\ k < s.year

\* line 159: range(1, self.year+1) yields k while k < self.year+1
InRange(s, k) == 1 <= k /\ k < s.year + 1

RECURSIVE SumLoop(_, _, _)
SumLoop(s, k, acc) ==
    IF InRange(s, k)
    THEN SumLoop(s, k + 1, RAdd(acc, get_present_value(s, k)))
    ELSE acc

sum_present_value(s) == SumLoop(s, 1, RInt(0))

get_iv(s) == ODiv(s, Val(sum_present_value(s)), Val(RInt(s.shares_outstanding)))

get_iv_with_cash(s) ==
    OAdd(get_iv(s), ODiv(s, Val(s.cash_and_STI), Val(RInt(s.shares_outstanding))))

\* the debt added, not subtracted
get_iv_with_debt_added(s) ==
    OAdd(get_iv_with_cash(s), ODiv(s, Val(s.total_debt), Val(RInt(s.shares_outstanding))))

get_iv_with_debt(s) ==
    OSub(get_iv_with_cash(s), ODiv(s, Val(s.total_debt), Val(RInt(s.shares_outstanding))))

final_discount(s) ==
    LET final_iv == get_iv_with_debt(s)
    IN  ODiv(s, OSub(final_iv, Val(s.current_price_USD)), final_iv)

-----------------------------------------------------------------------------
(* Construction.                                                           *)

NoResult == [kind |-> "none", val |-> Zero]

Idle ==
    /\ pc = "idle"
    /\ top = "none"
    /\ stack = <<>>
    /\ ret = Zero
    /\ i = 0
    /\ sum = Zero

Constructed(year, d) ==
    /\ stock = Construct(year, d)
    /\ op = "__init__"
    /\ arg = NoArg
    /\ result = NoResult
    /\ Idle

Init == \E year \in 0..MaxForecastYears, d \in TickerData : Constructed(year, d)

-----------------------------------------------------------------------------
(* Each method as one step.                                                *)

\* year arguments of get_projected_cash_flow
Years == 1..MaxYear

\* year arguments of the discounting operations: discount_rate ** year has to fit
\* the model's integers, like the horizons
DiscountYears == 1..MaxForecastYears

\* a method that uses self.year as its loop counter and leaves it at 0
SelfAfter_consumed(s) == [s EXCEPT !.year = 0]

\* lines 139-175: no method assigns to an attribute of self
SelfAfter(s) == s

Returns(name, a, r) ==
    /\ op' = name
    /\ arg' = a
    /\ result' = r
    /\ stock' = SelfAfter(stock)
    /\ UNCHANGED <<pc, top, stack, ret, i, sum>>

Attributes == Returns("attributes", NoArg, [kind |-> "items", val |-> attributes(stock)])

GetDiscountRate(year) == Returns("get_discount_rate", year, Val(get_discount_rate(stock, year)))

GetProjectedCashFlow(year) ==
    Returns("get_projected_cash_flow", year, Val(get_projected_cash_flow(stock, year)))

GetPresentValue(year) == Returns("get_present_value", year, Val(get_present_value(stock, year)))

SumPresentValue == Returns("sum_present_value", NoArg, Val(sum_present_value(stock)))

GetIv == Returns("get_iv", NoArg, get_iv(stock))

GetIvWithCash == Returns("get_iv_with_cash", NoArg, get_iv_with_cash(stock))

GetIvWithDebt == Returns("get_iv_with_debt", NoArg, get_iv_with_debt(stock))

FinalDiscount == Returns("final_discount", NoArg, final_discount(stock))

Next ==
    \/ Attributes
    \/ \E year \in DiscountYears : GetDiscountRate(year)
    \/ \E year \in Years : GetProjectedCashFlow(year)
    \/ \E year \in DiscountYears : GetPresentValue(year)
    \/ SumPresentValue
    \/ GetIv
    \/ GetIvWithCash
    \/ GetIvWithDebt
    \/ FinalDiscount

Spec == Init /\ [][Next]_vars

-----------------------------------------------------------------------------
(* One call of get_projected_cash_flow or sum_present_value, step by step:  *)
(* every recursive call pushes a frame, every return pops one.             *)

InitSteps == \E year \in 0..MaxForecastYears, d \in PlainTickerData : Constructed(year, d)

\* the caller invokes stock.get_projected_cash_flow(year)
CallProjectedCashFlow(year) ==
    /\ pc = "idle"
    /\ pc' = "enter"
    /\ top' = "get_projected_cash_flow"
    /\ stack' = <<year>>
    /\ UNCHANGED <<stock, op, arg, result, ret, i, sum>>

\* line 147-148: the innermost frame is the base case and returns
PcfBase ==
    /\ pc = "enter"
    /\ IsBaseYear(Head(stack))
    /\ ret' = RMul(stock.operating_cash_flow, stock.five_year_growth)
    /\ pc' = "return"
    /\ UNCHANGED <<stock, op, arg, result, top, stack, i, sum>>

\* lines 149-152: the innermost frame calls get_projected_cash_flow(year-1)
PcfRecurse ==
    /\ pc = "enter"
    /\ ~IsBaseYear(Head(stack))
    /\ stack' = <<Head(stack) - 1>> \o stack
    /\ UNCHANGED <<stock, op, arg, result, pc, top, ret, i, sum>>

\* lines 150, 152: the call returned into the frame that made it, which multiplies and returns
PcfResume ==
    /\ pc = "return"
    /\ Len(stack) > 1
    /\ ret' = RMul(GrowthOfYear(stock, stack[2]), ret)
    /\ stack' = Tail(stack)
    /\ UNCHANGED <<stock, op, arg, result, pc, top, i, sum>>

\* the outermost frame returns to the caller of the Stock
PcfReturn ==
    /\ pc = "return"
    /\ Len(stack) = 1
    /\ top = "get_projected_cash_flow"
    /\ pc' = "done"
    /\ op' = "get_projected_cash_flow"
    /\ arg' = Head(stack)
    /\ result' = Val(ret)
    /\ stack' = <<>>
    /\ UNCHANGED <<stock, top, ret, i, sum>>

\* the caller invokes stock.sum_present_value(): line 158 and the range of line 159
CallSumPresentValue ==
    /\ pc = "idle"
    /\ pc' = "for"
    /\ top' = "sum_present_value"
    /\ sum' = RInt(0)
    /\ i' = 1
    /\ UNCHANGED <<stock, op, arg, result, stack, ret>>

\* line 159-160, 155: the range yields i; get_present_value(i) calls get_projected_cash_flow(i)
ForNext ==
    /\ pc = "for"
    /\ InRange(stock, i)
    /\ pc' = "enter"
    /\ stack' = <<i>>
    /\ UNCHANGED <<stock, op, arg, result, top, ret, i, sum>>

\* line 155: get_projected_cash_flow(i) returned into get_present_value(i)
PcfReturnToPresentValue ==
    /\ pc = "return"
    /\ Len(stack) = 1
    /\ top = "sum_present_value"
    /\ pc' = "add"
    /\ stack' = <<>>
    /\ UNCHANGED <<stock, op, arg, result, top, ret, i, sum>>

\* lines 155, 160: divide by the discount factor, add, and advance the range
AddPresentValue ==
    /\ pc = "add"
    /\ sum' = RAdd(sum, RDiv(ret, get_discount_rate(stock, i)))
    /\ i' = i + 1
    /\ pc' = "for"
    /\ UNCHANGED <<stock, op, arg, result, top, stack, ret>>

\* line 161: the range is exhausted
ForExit ==
    /\ pc = "for"
    /\ ~InRange(stock, i)
    /\ pc' = "done"
    /\ op' = "sum_present_value"
    /\ arg' = NoArg
    /\ result' = Val(sum)
    /\ UNCHANGED <<stock, top, stack, ret, i, sum>>

\* the steps of a call in progress
Run ==
    \/ PcfBase
    \/ PcfRecurse
    \/ PcfResume
    \/ PcfReturn
    \/ ForNext
    \/ PcfReturnToPresentValue
    \/ AddPresentValue
    \/ ForExit

NextSteps ==
    \/ \E year \in Years : CallProjectedCashFlow(year)
    \/ CallSumPresentValue
    \/ Run

\* the interpreter runs a call in progress to its end
SpecSteps == InitSteps /\ [][NextSteps]_vars /\ WF_vars(Run)

-----------------------------------------------------------------------------
(* get_discount_rate_from_beta on a grid of betas.                         *)

\* betas in thousandths, negative ones included
BetaMillis == (-200)..MaxBetaMilli

BetaGrid == { Norm(m, 1000) : m \in BetaMillis }

\* a US company with all figures present and no beta
PlainData ==
    [ currentPrice      |-> RInt(1),
      sharesOutstanding |-> 2,
      currency          |-> "USD",
      ask               |-> Norm(1, 2),
      beta              |-> Missing,
      CashSTI           |-> RInt(1),
      CashEq            |-> RInt(1),
      TotalDebt         |-> RInt(1),
      currencyCode      |-> "USD",
      OperatingCashFlow |-> RInt(1),
      growth            |-> Norm(1, 10),
      number_type       |-> "float" ]

\* a caller holds a beta and is about to pass it to the function
InitRate ==
    /\ stock = Construct(1, PlainData)
    /\ op = "call"
    /\ arg \in BetaGrid
    /\ result = NoResult
    /\ Idle

DiscountRateFromBeta ==
    /\ op = "call"
    /\ Returns("get_discount_rate_from_beta", arg, Val(get_discount_rate_from_beta(arg)))

NextRate == DiscountRateFromBeta

SpecRate == InitRate /\ [][NextRate]_vars

-----------------------------------------------------------------------------
(* Construction over a grid of betas and growth estimates.                 *)

\* betas in hundredths, and no beta
ConstructBetas == { Norm(m, 1000) : m \in { k \in BetaMillis : k % 10 = 0 } } \cup {Missing}

ConstructGrowths == { Norm(g, 100) : g \in (-MaxGrowthPercent)..MaxGrowthPercent }

InitConstruct ==
    \E beta \in ConstructBetas, growth \in ConstructGrowths :
        Constructed(1, [PlainData EXCEPT !.beta = beta, !.growth = growth])

NextConstruct == Attributes

SpecConstruct == InitConstruct /\ [][NextConstruct]_vars

-----------------------------------------------------------------------------
(* Properties.                                                             *)

ValuationOps ==
    {"get_discount_rate", "get_projected_cash_flow", "get_present_value",
     "sum_present_value", "get_iv", "get_iv_with_cash", "get_iv_with_debt",
     "final_discount"}

\* the rule of the policy on integers: beta and rate in thousandths
RuleMilli(m) ==
    IF m < 800 THEN 1050
    ELSE IF m <= 1000 THEN 1060
    ELSE IF m > 1500 THEN 1090
    ELSE 1060 + 5 * ((m - 1000 + 99) \div 100)

\* the thousandths of a rational of the grid
MilliOf(a) == a[1] * (1000 \div a[2])

C2_Recurrence ==
    op = "get_projected_cash_flow" =>
        result = Val(IF arg = 1
                     THEN RMul(stock.operating_cash_flow, stock.five_year_growth)
                     ELSE IF arg <= 5
                     THEN RMul(get_projected_cash_flow(stock, arg - 1), stock.five_year_growth)
                     ELSE RMul(get_projected_cash_flow(stock, arg - 1), stock.ten_year_growth))

C2_Witness ==
    /\ op = "get_projected_cash_flow"
    /\ arg = 6
    /\ stock.five_year_growth # stock.ten_year_growth
    /\ ~IsZero(result.val)

\* presentValue(k) of the claim: projected cash flow over discountRate^k
ClaimPresentValue(s, k) == RDiv(get_projected_cash_flow(s, k), RPow(s.discount_rate, k))

\* the sum of ClaimPresentValue over the years 1..n
RECURSIVE DirectSum(_, _)
DirectSum(s, n) ==
    IF n = 0 THEN RInt(0) ELSE RAdd(DirectSum(s, n - 1), ClaimPresentValue(s, n))

\* C3: with a horizon of at least one year, sum_present_value() is the sum of
\* projected cash flow(k) / discount_rate^k over exactly the years 1..year, the last
\* one included, and a second call on the same Stock returns the same value.
C3_SumPresentValue ==
    /\ [](op = "sum_present_value" /\ stock.year >= 1
            => result = Val(DirectSum(stock, stock.year)))
    /\ [][op = "sum_present_value" /\ op' = "sum_present_value" /\ stock.year >= 1
            => result' = result]_vars

C3_Witness ==
    /\ op = "sum_present_value"
    /\ stock.year = 3
    /\ result.kind = "value"
    /\ ~IsZero(result.val)
    /\ result.val # DirectSum(stock, 2)

\* C4: with shares_outstanding > 0, get_iv() = sum_present_value() / shares,
\* get_iv_with_cash() = get_iv() + cash_and_STI / shares and get_iv_with_debt() =
\* get_iv_with_cash() - total_debt / shares: each call returns the previous call's
\* value composed with the next term.
C4_Compose ==
    [][stock.shares_outstanding > 0 =>
        /\ op = "sum_present_value" /\ op' = "get_iv" =>
              result' = Val(RDiv(result.val, RInt(stock.shares_outstanding)))
        /\ op = "get_iv" /\ op' = "get_iv_with_cash" =>
              result' = Val(RAdd(result.val,
                                 RDiv(stock.cash_and_STI, RInt(stock.shares_outstanding))))
        /\ op = "get_iv_with_cash" /\ op' = "get_iv_with_debt" =>
              result' = Val(RSub(result.val,
                                 RDiv(stock.total_debt, RInt(stock.shares_outstanding))))]_vars

C4_Witness ==
    /\ op = "get_iv_with_debt"
    /\ stock.shares_outstanding > 0
    /\ ~IsZero(stock.total_debt)
    /\ ~IsZero(stock.cash_and_STI)
    /\ result.kind = "value"
    /\ result.val[1] > 0

\* C5: construction rejects shares_outstanding <= 0 and a horizon below one year, so
\* no valuation operation ever runs on such a Stock.
C5_EagerValidation ==
    op \in ValuationOps => stock.shares_outstanding > 0 /\ stock.year >= 1

\* C6: final_discount() fails with the distinguished outcome DegenerateResult when
\* get_iv_with_debt() is 0, and returns a value when it is not 0.
C6_DegenerateResult ==
    op = "final_discount" /\ stock.shares_outstanding > 0 /\ stock.year >= 1 =>
        LET final_iv == get_iv_with_debt(stock)
        IN  /\ final_iv = Val(Zero) => result.kind = "DegenerateResult"
            /\ final_iv.kind = "value" /\ ~IsZero(final_iv.val) => result.kind = "value"

\* the forward loop of the claim: the running value after the years k..year
RECURSIVE Forward(_, _, _, _)
Forward(s, k, year, running) ==
    IF k > year THEN running
    ELSE Forward(s, k + 1, year,
                 RMul(running, IF k <= 5 THEN s.five_year_growth ELSE s.ten_year_growth))

ForwardCashFlow(s, year) == Forward(s, 1, year, s.operating_cash_flow)

Min(a, b) == IF a < b THEN a ELSE b

Max(a, b) == IF a > b THEN a ELSE b

ClosedCashFlow(s, year) ==
    RMul(s.operating_cash_flow,
         RMul(RPow(s.five_year_growth, Min(year, 5)),
              RPow(s.ten_year_growth, Max(year - 5, 0))))

\* C7: the recursion agrees with the forward loop that starts from
\* operating_cash_flow and multiplies by five_year_growth for the years 1..min(year,5)
\* and by ten_year_growth for the years 6..year, at every intermediate year: each
\* frame of the recursion returns the loop's running value of its year, which is
\* operating_cash_flow * five_year_growth^min(year,5) * ten_year_growth^max(year-5,0).
C7_ForwardIteration ==
    /\ pc = "return" =>
          /\ ret = ForwardCashFlow(stock, Head(stack))
          /\ ret = ClosedCashFlow(stock, Head(stack))
    /\ pc = "done" /\ op = "get_projected_cash_flow" =>
          result = Val(ForwardCashFlow(stock, arg))

C7_Witness ==
    /\ pc = "return"
    /\ Len(stack) = 2
    /\ Head(stack) = 6
    /\ stock.five_year_growth # stock.ten_year_growth
    /\ ret = ForwardCashFlow(stock, 6)

\* what the operation name returns on the fields s
ReturnOf(s, name, a) ==
    CASE name = "attributes" -> [kind |-> "items", val |-> attributes(s)]
      [] name = "get_discount_rate" -> Val(get_discount_rate(s, a))
      [] name = "get_projected_cash_flow" -> Val(get_projected_cash_flow(s, a))
      [] name = "get_present_value" -> Val(get_present_value(s, a))
      [] name = "sum_present_value" -> Val(sum_present_value(s))
      [] name = "get_iv" -> get_iv(s)
      [] name = "get_iv_with_cash" -> get_iv_with_cash(s)
      [] name = "get_iv_with_debt" -> get_iv_with_debt(s)
      [] name = "final_discount" -> final_discount(s)

\* C8: every operation leaves every field of the Stock unchanged, so an operation
\* called after any sequence of operations returns what it returns as the first call
\* on the Stock as constructed.
C8_ReadOnly ==
    /\ [][stock' = stock]_vars
    /\ [](op # "__init__" => result = ReturnOf(stock, op, arg))

C8_Witness ==
    /\ op = "final_discount"
    /\ result.kind = "value"
    /\ stock.year = 3

\* C9: every constructed Stock has discount_rate > 1.0 and ten_year_growth <= 1.15:
\* discount_rate is the policy's value for beta, one of 1.05..1.09, or the fallback
\* 1.09 without a beta, and ten_year_growth is min(1.15, five_year_growth).
C9_ConstructedRates ==
    /\ RLess(RInt(1), stock.discount_rate)
    /\ RLeq(stock.ten_year_growth, Milli(1150))
    /\ stock.discount_rate \in { Milli(1050 + 5 * k) : k \in 0..8 }
    /\ stock.beta = <<"NaN">> => stock.discount_rate = Milli(1090)
    /\ stock.beta # <<"NaN">> =>
          stock.discount_rate = Milli(RuleMilli(MilliOf(stock.beta)))
    /\ stock.ten_year_growth =
          (IF RLess(Milli(1150), stock.five_year_growth)
           THEN Milli(1150) ELSE stock.five_year_growth)

C9_Witness ==
    /\ op = "attributes"
    /\ stock.beta = <<"NaN">>
    /\ stock.discount_rate = Milli(1090)
    /\ stock.five_year_growth = Milli(1200)
    /\ stock.ten_year_growth = Milli(1150)

\* the frames of the recursion: arguments at least 1, each one less than its caller's
FramesDescend ==
    /\ \A k \in 1..Len(stack) : stack[k] >= 1
    /\ \A k \in 1..(Len(stack) - 1) : stack[k] = stack[k + 1] - 1

\* the base case is reached with as many frames as the outermost argument
BaseAtDepth ==
    pc = "return" /\ IsBaseYear(Head(stack)) => Len(stack) = stack[Len(stack)]

\* the loop calls only with arguments of the horizon and ends after year iterations
LoopWithinHorizon ==
    top = "sum_present_value" =>
        /\ stack # <<>> => stack[Len(stack)] = i /\ i \in 1..stock.year
        /\ pc = "done" /\ stock.year >= 1 => i = stock.year + 1

\* C10: every call terminates: get_projected_cash_flow(year) for year >= 1 reaches
\* the base case after exactly year-1 nested calls with strictly decreasing arguments,
\* none of them <= 0, and sum_present_value ends after exactly year iterations, each
\* calling get_projected_cash_flow with an argument in 1..year.
C10_Termination ==
    /\ [](FramesDescend /\ BaseAtDepth /\ LoopWithinHorizon)
    /\ (pc # "idle") ~> (pc = "done")

C10_Witness ==
    /\ pc = "done"
    /\ top = "sum_present_value"
    /\ stock.year = 3
    /\ i = 4

\* the stepwise execution returns what the functional form returns
StepsAgree ==
    pc = "done" => result = ReturnOf(stock, op, arg)

====
